---- MODULE Spec2Model ----
(***************************************************************************)
(* Kinematic character controller of src/plugin.rs: the five systems the   *)
(* plugin chains in Update (keyboard_input, gamepad_input, update_grounded,*)
(* movement, apply_movement_damping), the controller components they read  *)
(* and write, and the physics engine that runs between two Update passes.  *)
(*                                                                         *)
(* Scalars (f32) are modelled as exact rationals <<n, d>> in lowest terms  *)
(* with d > 0; floating-point rounding is not modelled.                    *)
(***************************************************************************)
EXTENDS Integers, Sequences, FiniteSets, TLC

(***************************************************************************)
(* Bounds of the model                                                     *)
(***************************************************************************)
\* Number of Update passes (ticks) explored.
MaxTicks == 3

\* Number of MovementAction events the input systems send in all passes
\* together.
MaxEvents == 3

(***************************************************************************)
(* Program constants                                                       *)
(***************************************************************************)
\* Controller entities spawned by setup().
NumControllers == 1

Controllers == 1..NumControllers

(***************************************************************************)
(* Scalars                                                                 *)
(***************************************************************************)
Abs(n) == IF n < 0 THEN -n ELSE n

RECURSIVE Gcd(_, _)
Gcd(a, b) == IF b = 0 THEN a ELSE Gcd(b, a % b)

Rat(n, d) ==
    LET g == Gcd(Abs(n), Abs(d))
        s == IF d < 0 THEN -1 ELSE 1
    IN  IF n = 0 THEN <<0, 1>> ELSE <<s * (n \div g), s * (d \div g)>>

RInt(n) == <<n, 1>>

RAdd(a, b) == Rat(a[1] * b[2] + b[1] * a[2], a[2] * b[2])

RMul(a, b) == Rat(a[1] * b[1], a[2] * b[2])

RNeg(a) == <<-a[1], a[2]>>

RHalf == <<1, 2>>

RZero == <<0, 1>>

(***************************************************************************)
(* Components                                                              *)
(***************************************************************************)
\* enum Grounded
Grounded == {"None", "Ground", "LeftWall", "RightWall"}

\* Option<Grounded>: <<>> is None, <<g>> is Some(g).
OptNone == <<>>

Some(g) == <<g>>

\* enum MovementAction
Move(direction) == [type |-> "Move", direction |-> direction]

Jump == [type |-> "Jump", direction |-> RZero]

\* MovementBundle::default(): acceleration 30.0, jump impulse 7.0.
DefaultAcceleration == 30

DefaultJumpImpulse == 7

\* Damping factors a controller is built with here (with_movement takes any
\* scalar; 0.9 is the default).
DampingFactors == {RZero, RHalf, Rat(9, 10)}

\* MovementBundle::new for the damping factor d.
MovementBundle(d) ==
    [acceleration |-> RInt(DefaultAcceleration),
     damping      |-> d,
     jump_impulse |-> RInt(DefaultJumpImpulse)]

\* Collider::capsule(radius, length).
Capsule(radius, length) == [radius |-> radius, length |-> length]

\* The capsule of the game's character, and a capsule of no size.
GameCollider == Capsule(Rat(25, 2), RInt(20))

PointCollider == Capsule(RZero, RZero)

\* Collider::set_scale by Vector::ONE * k.
Scaled(collider, k) ==
    Capsule(RMul(collider.radius, k), RMul(collider.length, k))

\* CharacterControllerBundle::new: the shape of the casts is the collider
\* scaled by 0.99, whatever the collider is; new returns Self.
CasterShape(collider) == Scaled(collider, Rat(99, 100))

\* The controllers built here: the game's collider with each damping
\* factor, and a capsule of no size with one of them (the shape has no part
\* in what the systems do with the cast results).
Builds ==
    {[collider |-> GameCollider, damping |-> d] : d \in DampingFactors}
    \cup {[collider |-> PointCollider, damping |-> RZero]}

\* CharacterControllerBundle::new: the controller and its velocity.
NewController ==
    [grounded   |-> "None",
     wall_jumps |-> 0,
     last_wall  |-> OptNone,
     vx         |-> RZero,
     vy         |-> RZero]

(***************************************************************************)
(* State                                                                   *)
(***************************************************************************)
VARIABLES
    pc,        \* the system that runs next ("physics" between two Update passes)
    tick,      \* Update passes completed
    world,     \* per controller: what a shape cast from its position hits
    bundle,    \* per controller: its MovementBundle parameters
    caster_shape, \* per controller: the ShapeCastShape of its casts
    ctl,       \* per controller: Grounded, CharacterController, LinearVelocity
    events,    \* Events<MovementAction> not yet read by movement's EventReader
    ran,       \* history: the systems that have run in the current pass
    before,    \* history: ctl before the system that ran last
    start,     \* history: ctl when the current pass began
    log,       \* history: one record per event movement read in this pass
    lastJump,  \* history: per controller, the last Jump event of earlier passes
    sent,      \* history: the number of events sent so far
    produced,  \* history: the events sent in this pass, each with its source
    lastApplied, \* history: per controller, the last applied jump of earlier passes
    performed  \* history: per controller, wall jumps counted in earlier passes

vars == <<pc, tick, world, bundle, caster_shape, ctl, events, ran, before,
          start, log,
          lastJump, sent, produced, lastApplied, performed>>

\* What the three shape casts of update_grounded return for one controller:
\* whether the cast down, right and left reports a hit.
Probes == [down : BOOLEAN, right : BOOLEAN, left : BOOLEAN]

\* Stick readings of Axis<GamepadAxis>::get: None or Some(x).
AxisReadings == {OptNone, Some(RZero), Some(RInt(1))}

\* One connected gamepad: its left-stick reading and whether South was
\* just pressed.
PadStates == [axis : AxisReadings, south : BOOLEAN]

\* The gamepads that may be connected (Gamepads::iter yields those that are).
Gamepads == {1}

\* The orders in which gamepads.iter() may yield the gamepads of the set S.
Orders(S) ==
    {o \in [1..Cardinality(S) -> S] : \A i, j \in DOMAIN o : i # j => o[i] # o[j]}

\* Time::delta_seconds of an Update pass.
DeltaTimes == {Rat(1, 10)}

\* Chain with movement ahead of the contact classifier.
ChainMovementFirst ==
    <<"keyboard_input", "gamepad_input", "movement", "update_grounded",
      "apply_movement_damping">>

\* Chain with damping ahead of movement.
ChainDampingFirst ==
    <<"keyboard_input", "gamepad_input", "update_grounded",
      "apply_movement_damping", "movement">>

\* The systems of the plugin, in the order .chain() fixes.
Chain ==
    <<"keyboard_input", "gamepad_input", "update_grounded", "movement",
      "apply_movement_damping">>

IndexOf(s) == CHOOSE i \in 1..Len(Chain) : Chain[i] = s

\* The system that runs after s in the chain; the physics engine runs once
\* the chain is through.
After(s) == IF IndexOf(s) < Len(Chain) THEN Chain[IndexOf(s) + 1] ELSE "physics"

NoJump == [grounded |-> "None", permitted |-> FALSE, impulse |-> FALSE,
           noop |-> FALSE, any |-> FALSE, steady |-> TRUE, ground |-> FALSE]

Init ==
    /\ pc = Chain[1]
    /\ tick = 0
    /\ world \in [Controllers -> Probes]
    /\ \E build \in [Controllers -> Builds] :
          /\ bundle = [c \in Controllers |-> MovementBundle(build[c].damping)]
          /\ caster_shape = [c \in Controllers |->
                               CasterShape(build[c].collider)]
    /\ ctl = [c \in Controllers |-> NewController]
    /\ events = <<>>
    /\ ran = <<>>
    /\ before = ctl
    /\ start = ctl
    /\ log = <<>>
    /\ lastJump = [c \in Controllers |-> NoJump]
    /\ sent = 0
    /\ produced = <<>>
    /\ lastApplied = [c \in Controllers |-> "None"]
    /\ performed = [c \in Controllers |-> [ground |-> 0, jump |-> 0]]

(***************************************************************************)
(* Input systems                                                           *)
(***************************************************************************)
Bool2Int(b) == IF b THEN 1 ELSE 0

\* The events keyboard_input sends for the keys held (left, right) and for
\* Space just pressed.
KeyboardEvents(left, right, space) ==
    LET horizontal == Bool2Int(right) - Bool2Int(left)
    IN  (IF horizontal # 0 THEN <<Move(RInt(horizontal))>> ELSE <<>>)
        \o (IF space THEN <<Jump>> ELSE <<>>)

\* The events gamepad_input sends for one gamepad.
GamepadEvents(pad) ==
    (IF pad.axis # OptNone THEN <<Move(pad.axis[1])>> ELSE <<>>)
    \o (IF pad.south THEN <<Jump>> ELSE <<>>)

RECURSIVE AllGamepadEvents(_)
AllGamepadEvents(pads) ==
    IF pads = <<>> THEN <<>>
    ELSE GamepadEvents(Head(pads)) \o AllGamepadEvents(Tail(pads))

\* A system of the chain ran: the history variables every system shares.
Ran(s) ==
    /\ pc = s
    /\ pc' = After(s)
    /\ ran' = Append(ran, s)
    /\ before' = ctl
    /\ UNCHANGED <<tick, world, bundle, caster_shape, start, lastJump,
                   lastApplied, performed>>

\* EventWriter::send of the events evs, while the run's events last.
Send(evs) ==
    /\ sent + Len(evs) <= MaxEvents
    /\ sent' = sent + Len(evs)
    /\ events' = events \o evs

\* The events evs, each with the source that sent it.
Tagged(src, evs) == [i \in 1..Len(evs) |-> [src |-> src, ev |-> evs[i]]]

Keyboard == <<"keyboard", 0>>

Gamepad(id) == <<"gamepad", id>>

\* AllGamepadEvents for the gamepads in the order iterated, each event with
\* its gamepad.
RECURSIVE AllGamepadTagged(_, _)
AllGamepadTagged(order, state) ==
    IF order = <<>> THEN <<>>
    ELSE Tagged(Gamepad(Head(order)), GamepadEvents(state[Head(order)]))
         \o AllGamepadTagged(Tail(order), state)

keyboard_input ==
    /\ Ran("keyboard_input")
    /\ \E left \in BOOLEAN, right \in BOOLEAN, space \in BOOLEAN :
          /\ Send(KeyboardEvents(left, right, space))
          /\ produced' = produced
                 \o Tagged(Keyboard, KeyboardEvents(left, right, space))
    /\ UNCHANGED <<ctl, log>>

gamepad_input ==
    /\ Ran("gamepad_input")
    /\ \E connected \in SUBSET Gamepads :
          \E order \in Orders(connected) :
             \E state \in [connected -> PadStates] :
                /\ Send(AllGamepadEvents(
                           [i \in DOMAIN order |-> state[order[i]]]))
                /\ produced' = produced \o AllGamepadTagged(order, state)
    /\ UNCHANGED <<ctl, log>>

(***************************************************************************)
(* Contact classifier                                                      *)
(***************************************************************************)
\* Classify with the walls looked at before the ground.
ClassifyWallsFirst(p) ==
    IF p.right THEN "RightWall"
    ELSE IF p.left THEN "LeftWall"
    ELSE IF p.down THEN "Ground"
    ELSE "None"

\* The body of update_grounded's loop: the first cast that hits decides.
Classify(p) ==
    IF p.down THEN "Ground"
    ELSE IF p.right THEN "RightWall"
    ELSE IF p.left THEN "LeftWall"
    ELSE "None"

\* update_grounded that lifts the wall-jump restriction when the ground is
\* touched.
update_grounded_resets ==
    /\ Ran("update_grounded")
    /\ ctl' = [c \in Controllers |->
                 IF Classify(world[c]) = "Ground"
                 THEN [ctl[c] EXCEPT !.grounded = "Ground", !.wall_jumps = 0,
                                     !.last_wall = OptNone]
                 ELSE [ctl[c] EXCEPT !.grounded = Classify(world[c])]]
    /\ UNCHANGED <<events, sent, produced, log>>

\* update_grounded that takes a wall for a contact only while the body moves
\* towards it.
update_grounded_moving ==
    /\ Ran("update_grounded")
    /\ ctl' = [c \in Controllers |->
                 LET g == Classify(world[c])
                     towards == \/ g = "RightWall" /\ ctl[c].vx[1] > 0
                                \/ g = "LeftWall" /\ ctl[c].vx[1] < 0
                 IN  [ctl[c] EXCEPT !.grounded =
                         IF g \in {"LeftWall", "RightWall"} /\ ~towards
                         THEN "None" ELSE g]]
    /\ UNCHANGED <<events, sent, produced, log>>

update_grounded ==
    /\ Ran("update_grounded")
    /\ ctl' = [c \in Controllers |->
                 [ctl[c] EXCEPT !.grounded = Classify(world[c])]]
    /\ UNCHANGED <<events, sent, produced, log>>

(***************************************************************************)
(* Movement responder                                                      *)
(***************************************************************************)
\* MoveStep that sets the horizontal velocity instead of adding to it.
MoveStepReplaces(c, b, direction, dt) ==
    [c EXCEPT !.vx = RMul(RMul(direction, b.acceleration), dt)]

\* MovementAction::Move(direction): linear_velocity.x += direction * acc * dt
MoveStep(c, b, direction, dt) ==
    [c EXCEPT !.vx = RAdd(c.vx, RMul(RMul(direction, b.acceleration), dt))]

\* GroundJump with the impulse added to the vertical velocity.
GroundJumpAdditive(c, b) ==
    [c EXCEPT !.vy = RAdd(c.vy, b.jump_impulse),
              !.wall_jumps = 0, !.last_wall = OptNone]

\* GroundJump that leaves the wall last jumped from.
GroundJumpKeepsWall(c, b) ==
    [c EXCEPT !.vy = b.jump_impulse, !.wall_jumps = 0]

\* GroundJump that leaves the count of wall jumps.
GroundJumpKeepsCount(c, b) ==
    [c EXCEPT !.vy = b.jump_impulse, !.last_wall = OptNone]

\* Jump while Grounded::Ground
GroundJump(c, b) ==
    [c EXCEPT !.vy = b.jump_impulse, !.wall_jumps = 0, !.last_wall = OptNone]

\* WallJumpPermitted without the comparison of the wall.
WallJumpAlwaysPermitted(c) == TRUE

\* WallJumpPermitted without the ping-pong case.
WallJumpOnlyOnce(c) == c.wall_jumps = 0

\* The condition under which a Jump on a wall is applied.
WallJumpPermitted(c) ==
    c.wall_jumps = 0 \/ c.last_wall # Some(c.grounded)

\* WallKick with the two walls exchanged.
WallKickTowardsWall(c, b) ==
    IF c.grounded = "RightWall"
    THEN RMul(b.jump_impulse, RHalf)
    ELSE RMul(RNeg(b.jump_impulse), RHalf)

\* The horizontal velocity a wall jump sets: away from the wall.
WallKick(c, b) ==
    IF c.grounded = "LeftWall"
    THEN RMul(b.jump_impulse, RHalf)
    ELSE RMul(RNeg(b.jump_impulse), RHalf)

\* WallJump that does not record the wall.
WallJumpForgetsWall(c, b) ==
    IF WallJumpPermitted(c)
    THEN [c EXCEPT !.vy = b.jump_impulse,
                   !.vx = WallKick(c, b),
                   !.wall_jumps = c.wall_jumps + 1]
    ELSE c

\* WallJump after which the controller no longer counts as on the wall.
WallJumpLeavesWall(c, b) ==
    IF WallJumpPermitted(c)
    THEN [c EXCEPT !.vy = b.jump_impulse,
                   !.vx = WallKick(c, b),
                   !.wall_jumps = c.wall_jumps + 1,
                   !.last_wall = Some(c.grounded),
                   !.grounded = "None"]
    ELSE c

\* Jump while Grounded::LeftWall | Grounded::RightWall.  wall_jumps is a
\* u32; within MaxTicks passes it stays far below 2^32.
WallJump(c, b) ==
    IF WallJumpPermitted(c)
    THEN [c EXCEPT !.vy = b.jump_impulse,
                   !.vx = WallKick(c, b),
                   !.wall_jumps = c.wall_jumps + 1,
                   !.last_wall = Some(c.grounded)]
    ELSE c

\* JumpStep with a jump in the air.
JumpStepAirJump(c, b) ==
    CASE c.grounded \in {"Ground", "None"} -> GroundJump(c, b)
      [] OTHER -> WallJump(c, b)

\* MovementAction::Jump => match *grounded
JumpStep(c, b) ==
    CASE c.grounded = "Ground" -> GroundJump(c, b)
      [] c.grounded \in {"LeftWall", "RightWall"} -> WallJump(c, b)
      [] OTHER -> c

\* match event, for one controller
ApplyAction(ev, c, b, dt) ==
    IF ev.type = "Move" THEN MoveStep(c, b, ev.direction, dt) ELSE JumpStep(c, b)

\* The event loop of movement: every event, in the order sent, against every
\* controller.  The result is one record per event read, holding the
\* controllers before and after it.
RECURSIVE DrainNewestFirst(_, _, _)
DrainNewestFirst(evs, cs, dt) ==
    IF evs = <<>> THEN <<>>
    ELSE LET ev == evs[Len(evs)]
             post == [c \in Controllers |->
                        ApplyAction(ev, cs[c], bundle[c], dt)]
         IN  <<[ev |-> ev, dt |-> dt, pre |-> cs, post |-> post]>>
             \o DrainNewestFirst(SubSeq(evs, 1, Len(evs) - 1), post, dt)

RECURSIVE Drain(_, _, _)
Drain(evs, cs, dt) ==
    IF evs = <<>> THEN <<>>
    ELSE LET post == [c \in Controllers |->
                        ApplyAction(Head(evs), cs[c], bundle[c], dt)]
         IN  <<[ev |-> Head(evs), dt |-> dt, pre |-> cs, post |-> post]>>
             \o Drain(Tail(evs), post, dt)

movement ==
    /\ Ran("movement")
    /\ \E dt \in DeltaTimes :
          LET l == Drain(events, ctl, dt)
          IN  /\ log' = l
              /\ ctl' = IF l = <<>> THEN ctl ELSE l[Len(l)].post
    /\ events' = <<>>
    /\ UNCHANGED <<sent, produced>>

(***************************************************************************)
(* Damping stage                                                           *)
(***************************************************************************)
\* Damp acting on both axes, as LinearDamping would.
DampBothAxes(c, b) ==
    [c EXCEPT !.vx = RMul(c.vx, b.damping), !.vy = RMul(c.vy, b.damping)]

\* Damp that leaves the velocity as it is.
DampNothing(c, b) == c

\* linear_velocity.x *= damping_factor.0
Damp(c, b) == [c EXCEPT !.vx = RMul(c.vx, b.damping)]

apply_movement_damping ==
    /\ Ran("apply_movement_damping")
    /\ ctl' = [c \in Controllers |-> Damp(ctl[c], bundle[c])]
    /\ UNCHANGED <<events, sent, produced, log>>

(***************************************************************************)
(* History kept across passes                                              *)
(***************************************************************************)
Walls == {"LeftWall", "RightWall"}

\* The velocity and wall-jump state of a controller record.
Motion(s) == <<s.vx, s.vy, s.wall_jumps, s.last_wall>>

\* Record r of the log shows, for controller c, the full effect of a wall
\* jump off the wall c touched.
ShowsWallJump(r, c) ==
    LET s == r.pre[c]
        t == r.post[c]
        j == bundle[c].jump_impulse
    IN  /\ s.grounded \in Walls
        /\ t.vy = j
        /\ t.vx = IF s.grounded = "LeftWall" THEN Rat(j[1], 2 * j[2])
                                             ELSE Rat(-j[1], 2 * j[2])
        /\ t.wall_jumps = s.wall_jumps + 1
        /\ t.last_wall = <<s.grounded>>

\* Record r of the log shows, for controller c, no effect at all.
ShowsNothing(r, c) == Motion(r.post[c]) = Motion(r.pre[c])

\* The wall-jump rule of the specification, on the state before an event.
RulePermits(s) == s.wall_jumps = 0 \/ s.last_wall # <<s.grounded>>

\* What is remembered of a Jump event once its pass is over.
Summary(r, c) ==
    [grounded  |-> r.pre[c].grounded,
     permitted |-> RulePermits(r.pre[c]),
     impulse   |-> ShowsWallJump(r, c),
     noop      |-> ShowsNothing(r, c),
     any       |-> TRUE,
     steady    |-> TRUE,
     ground    |-> FALSE]

\* The summary j of a Jump event after one more pass, without a Jump event,
\* in which the contact was g: steady tells whether the contact has been
\* the one of the Jump event in every pass since, ground whether it has
\* been Ground in some pass since.
Later(j, g) ==
    IF ~j.any THEN j
    ELSE [j EXCEPT !.steady = j.steady /\ g = j.grounded,
                   !.ground = j.ground \/ g = "Ground"]

IsJump(r) == r.ev.type = "Jump"

JumpIndices(l) == {i \in 1..Len(l) : IsJump(l[i])}

Max(S) == CHOOSE x \in S : \A y \in S : y <= x

Min(S) == CHOOSE x \in S : \A y \in S : x <= y

\* Record r is a jump that was applied for controller c: a Jump on the
\* ground, or a Jump on a wall that raised wall_jumps.
AppliedJump(r, c) ==
    /\ IsJump(r)
    /\ \/ r.pre[c].grounded = "Ground"
       \/ /\ r.pre[c].grounded \in Walls
          /\ r.post[c].wall_jumps # r.pre[c].wall_jumps

AppliedIndices(l, c) == {i \in 1..Len(l) : AppliedJump(l[i], c)}

\* The applied jumps of the records l off a wall, and those off the ground.
WallJumpIndices(l, c) ==
    {i \in AppliedIndices(l, c) : l[i].pre[c].grounded \in Walls}

GroundJumpIndices(l, c) ==
    {i \in AppliedIndices(l, c) : l[i].pre[c].grounded = "Ground"}

\* The wall jumps controller c has performed since the last pass in which
\* its contact was Ground, given n of them before the records l and the
\* contact g of the pass of l (classified tells whether g is of this pass).
SinceGround(n, l, g, classified, c) ==
    IF classified /\ g = "Ground" THEN 0
    ELSE n + Cardinality(WallJumpIndices(l, c))

\* The wall jumps controller c has performed since its last jump off the
\* ground (since it was built when there is none), given n of them before
\* the records l.
SinceGroundJump(n, l, c) ==
    IF GroundJumpIndices(l, c) = {}
    THEN n + Cardinality(WallJumpIndices(l, c))
    ELSE Cardinality({i \in WallJumpIndices(l, c) :
                        i > Max(GroundJumpIndices(l, c))})

(***************************************************************************)
(* Physics engine, between two Update passes                               *)
(***************************************************************************)
\* Gravity (800 downwards) times GravityScale (1.5) over one step of 1/60 s.
GravityStep == 20

\* The engine's step on a controller's velocity: the body flies on under
\* gravity (the floor is frictionless, and a contact within reach of the
\* casts is not yet a collision).  What the step does to the body's place in
\* the world shows in the cast results of the next pass.
Integrate(c) == [c EXCEPT !.vy = RAdd(c.vy, RInt(-GravityStep))]

physics ==
    /\ pc = "physics"
    /\ tick + 1 < MaxTicks
    /\ tick' = tick + 1
    /\ pc' = Chain[1]
    /\ world' \in [Controllers -> Probes]
    /\ ctl' = [c \in Controllers |-> Integrate(ctl[c])]
    /\ ran' = <<>>
    /\ log' = <<>>
    /\ produced' = <<>>
    /\ before' = ctl'
    /\ start' = ctl'
    /\ lastJump' = [c \in Controllers |->
                      IF JumpIndices(log) = {}
                      THEN Later(lastJump[c], ctl[c].grounded)
                      ELSE Summary(log[Max(JumpIndices(log))], c)]
    /\ lastApplied' = [c \in Controllers |->
                         IF AppliedIndices(log, c) = {} THEN lastApplied[c]
                         ELSE log[Max(AppliedIndices(log, c))].pre[c].grounded]
    /\ performed' = [c \in Controllers |->
                       [ground |-> SinceGround(performed[c].ground, log,
                                               ctl[c].grounded, TRUE, c),
                        jump   |-> SinceGroundJump(performed[c].jump, log, c)]]
    /\ UNCHANGED <<bundle, caster_shape, events, sent>>

Next ==
    \/ keyboard_input
    \/ gamepad_input
    \/ update_grounded
    \/ movement
    \/ apply_movement_damping
    \/ physics

Spec == Init /\ [][Next]_vars

(***************************************************************************)
(* Properties of a single Jump event                                       *)
(***************************************************************************)
\* The Jump events of the log as (record, controller) cases.
JumpsAt(g) ==
    {<<i, c>> \in (1..Len(log)) \X Controllers :
        IsJump(log[i]) /\ log[i].pre[c].grounded \in g}

\* C3: a Jump event processed while contact is Ground sets velocity.y to
\* jump_impulse (whatever it was), wall_jump_count to 0 and
\* last_wall_jumped_from to None, and leaves velocity.x as it was, whatever
\* the wall-jump history and the velocity before it.
C3_GroundJump ==
    \A p \in JumpsAt({"Ground"}) :
       LET s == log[p[1]].pre[p[2]]
           t == log[p[1]].post[p[2]]
       IN  /\ t.vy = bundle[p[2]].jump_impulse
           /\ t.wall_jumps = 0
           /\ t.last_wall = <<>>
           /\ t.vx = s.vx

\* A Ground jump after a wall jump, from a moving body.
C3_Witness ==
    \E p \in JumpsAt({"Ground"}) :
       LET s == log[p[1]].pre[p[2]]
       IN  /\ s.wall_jumps > 0
           /\ s.last_wall # <<>>
           /\ s.vy # RZero
           /\ s.vy # bundle[p[2]].jump_impulse
           /\ s.vx # RZero

\* C4: a Jump event processed while contact is None changes nothing:
\* velocity.x, velocity.y, wall_jump_count and last_wall_jumped_from keep
\* their values.
C4_NoAirJump ==
    \A p \in JumpsAt({"None"}) : ShowsNothing(log[p[1]], p[2])

\* A Jump in the air, with a wall jump behind it and a moving body.
C4_Witness ==
    \E p \in JumpsAt({"None"}) :
       LET s == log[p[1]].pre[p[2]]
       IN  s.wall_jumps > 0 /\ s.vy # RZero /\ s.vy # bundle[p[2]].jump_impulse

\* C5: a Jump event processed on a wall is applied exactly when
\* wall_jump_count = 0 or last_wall_jumped_from is not that wall; applied, it
\* sets velocity.y to jump_impulse and velocity.x to half the impulse away
\* from the wall, adds 1 to wall_jump_count and records the wall; not
\* applied, it changes nothing.
C5_WallJumpRule ==
    \A p \in JumpsAt(Walls) :
       IF RulePermits(log[p[1]].pre[p[2]])
       THEN ShowsWallJump(log[p[1]], p[2])
       ELSE ShowsNothing(log[p[1]], p[2])

\* A permitted wall jump after an earlier wall jump off the other wall, from
\* a body that moved horizontally.
C5_Witness ==
    \E p \in JumpsAt(Walls) :
       LET s == log[p[1]].pre[p[2]]
       IN  /\ s.wall_jumps > 0
           /\ RulePermits(s)
           /\ s.vx # RZero
           /\ s.vx # log[p[1]].post[p[2]].vx

(***************************************************************************)
(* Properties of sequences of Jump events                                  *)
(***************************************************************************)
\* The Jump event before record i of the log, as controller c saw it: an
\* earlier record of this pass, or the last one of the earlier passes.
PrevJump(i, c) ==
    LET earlier == {k \in JumpIndices(log) : k < i}
    IN  IF earlier # {} THEN Summary(log[Max(earlier)], c) ELSE lastJump[c]

\* The pairs of consecutive Jump events, the first processed on wall g1 and
\* the second (record p[1] of the log, for controller p[2]) on wall g2.
JumpPairs(g1, g2) ==
    {p \in JumpsAt({g2}) :
        PrevJump(p[1], p[2]).any /\ PrevJump(p[1], p[2]).grounded = g1}

\* Two consecutive Jump events on the right wall, the contact being
\* RightWall all the way from the first to the second.
RightWallPairs ==
    {p \in JumpPairs("RightWall", "RightWall") :
        PrevJump(p[1], p[2]).steady}

\* C1, as stated: of two consecutive Jump events processed while the
\* controller is RightWall throughout, the first applies the wall-jump
\* impulse and the second changes nothing.
C1_AsStated ==
    \A p \in RightWallPairs :
       /\ PrevJump(p[1], p[2]).impulse
       /\ ShowsNothing(log[p[1]], p[2])

\* C1, amended: of two consecutive Jump events processed while the controller
\* is RightWall throughout, the second changes nothing; the first applies the
\* wall-jump impulse if the rule permits it when it is processed
\* (wall_jump_count = 0 or the last wall is not RightWall) and changes
\* nothing otherwise.
C1_SecondJumpDenied ==
    \A p \in RightWallPairs :
       LET j1 == PrevJump(p[1], p[2])
       IN  /\ ShowsNothing(log[p[1]], p[2])
           /\ IF j1.permitted THEN j1.impulse ELSE j1.noop

\* A permitted Jump on the right wall followed, in a later pass on the same
\* wall, by a Jump that is denied.
C1_Witness ==
    \E p \in RightWallPairs :
       /\ PrevJump(p[1], p[2]).impulse
       /\ p[1] = Min(JumpIndices(log))
       /\ log[p[1]].pre[p[2]].vx # RZero

\* A Jump on the left wall followed by a Jump on the right wall with no
\* Ground contact in the passes between.
PingPongPairs ==
    {p \in JumpPairs("LeftWall", "RightWall") :
        ~PrevJump(p[1], p[2]).ground}

\* C2, as stated: a Jump event processed on the left wall and the next Jump
\* event, processed on the right wall with no Ground contact between, both
\* apply the wall-jump impulse.
C2_AsStated ==
    \A p \in PingPongPairs :
       /\ PrevJump(p[1], p[2]).impulse
       /\ ShowsWallJump(log[p[1]], p[2])

\* C2, amended: of a Jump event processed on the left wall and the next Jump
\* event, processed on the right wall with no Ground contact between, the
\* second always applies the wall-jump impulse; the first applies it if the
\* rule permits it when it is processed and changes nothing otherwise.
C2_PingPong ==
    \A p \in PingPongPairs :
       LET j1 == PrevJump(p[1], p[2])
       IN  /\ ShowsWallJump(log[p[1]], p[2])
           /\ IF j1.permitted THEN j1.impulse ELSE j1.noop

\* An applied jump off the left wall followed by a jump off the right wall,
\* which raises wall_jump_count to 2.
C2_Witness ==
    \E p \in PingPongPairs :
       /\ PrevJump(p[1], p[2]).impulse
       /\ log[p[1]].post[p[2]].wall_jumps = 2

\* The applied jump before record i of the log, for controller c: the
\* contact it was made on, "None" when there was none yet.
PrevApplied(i, c) ==
    LET earlier == {k \in AppliedIndices(log, c) : k < i}
    IN  IF earlier # {} THEN log[Max(earlier)].pre[c].grounded
        ELSE lastApplied[c]

\* C6: no wall climbing.  The applied jump before an applied jump off a wall
\* is never a jump off that same wall: between two applied jumps off one wall
\* there is an applied Ground jump or an applied jump off the other wall.
C6_NoWallClimbing ==
    \A c \in Controllers :
       \A i \in AppliedIndices(log, c) :
          log[i].pre[c].grounded \in Walls
             => PrevApplied(i, c) # log[i].pre[c].grounded

\* A wall jump, then passes off the wall (in the air or on the ground, with
\* no jump), then a Jump back on the same wall, which is denied.
C6_Witness ==
    \E p \in JumpsAt(Walls) :
       LET g == log[p[1]].pre[p[2]].grounded
       IN  /\ PrevJump(p[1], p[2]).impulse
           /\ PrevJump(p[1], p[2]).grounded = g
           /\ PrevApplied(p[1], p[2]) = g
           /\ ~PrevJump(p[1], p[2]).steady
           /\ ShowsNothing(log[p[1]], p[2])

(***************************************************************************)
(* Properties of the classifier, the order of the systems and damping      *)
(***************************************************************************)
\* The system that ran last in the current pass ("" when none has yet).
LastRan == IF ran = <<>> THEN "" ELSE ran[Len(ran)]

\* The contact the specification gives for the cast results p.
PriorityContact(p) ==
    CASE p.down -> "Ground"
      [] ~p.down /\ p.right -> "RightWall"
      [] ~p.down /\ ~p.right /\ p.left -> "LeftWall"
      [] ~p.down /\ ~p.right /\ ~p.left -> "None"

\* C7: after the classifier has run, contact is one of the four kinds: Ground
\* whenever the cast down hits, RightWall when it misses and the cast right
\* hits, LeftWall when only the cast left hits, and None exactly when no cast
\* hits.
C7_ClassifierPriority ==
    LastRan = "update_grounded" =>
       \A c \in Controllers :
          /\ ctl[c].grounded \in {"None", "Ground", "LeftWall", "RightWall"}
          /\ ctl[c].grounded = PriorityContact(world[c])
          /\ ctl[c].grounded = "None"
                <=> ~(world[c].down \/ world[c].right \/ world[c].left)

\* All three casts hit, and the classifier replaces a wall contact by Ground.
C7_Witness ==
    /\ LastRan = "update_grounded"
    /\ \E c \in Controllers :
          /\ world[c] = [down |-> TRUE, right |-> TRUE, left |-> TRUE]
          /\ before[c].grounded = "RightWall"
          /\ ctl[c].grounded = "Ground"

\* The order of the stages within a pass.
StageOrder ==
    <<"keyboard_input", "gamepad_input", "update_grounded", "movement",
      "apply_movement_damping">>

\* C8: in every pass the stages run in the order keyboard input, gamepad
\* input, contact classification, movement, damping, each exactly once, and
\* the physics engine only after all five; every event movement processes is
\* decided against the contact classified in the same pass.
C8_StageOrder ==
    /\ Len(ran) <= Len(StageOrder)
    /\ ran = SubSeq(StageOrder, 1, Len(ran))
    /\ pc = "physics" => ran = StageOrder
    /\ \A i \in 1..Len(log) : \A c \in Controllers :
          log[i].pre[c].grounded = PriorityContact(world[c])

\* A pass is through in which a Jump was decided against a contact that is
\* not the one of the pass before.
C8_Witness ==
    /\ pc = "physics"
    /\ \E p \in JumpsAt({"Ground", "LeftWall", "RightWall"}) :
          /\ start[p[2]].grounded # log[p[1]].pre[p[2]].grounded
          /\ start[p[2]].grounded # "None"
          /\ ~ShowsNothing(log[p[1]], p[2])

\* The sum of direction * acceleration * delta_time over the Move events of
\* the records l, for controller c.
RECURSIVE MoveSum(_, _)
MoveSum(l, c) ==
    IF l = <<>> THEN RZero
    ELSE RAdd(IF IsJump(Head(l)) THEN RZero
              ELSE RMul(RMul(Head(l).ev.direction, bundle[c].acceleration),
                        Head(l).dt),
              MoveSum(Tail(l), c))

\* C9: movement is resolved before damping.  At the end of a pass in which
\* only Move events were processed, velocity.x is (velocity.x at the start of
\* the pass + the sum of direction * acceleration * delta_time over the
\* events) * damping_factor, that is start * factor + sum * factor.
C9_MoveThenDamp ==
    (pc = "physics" /\ log # <<>> /\ JumpIndices(log) = {}) =>
       \A c \in Controllers :
          LET d == bundle[c].damping
              sum == MoveSum(log, c)
          IN  /\ ctl[c].vx = RMul(RAdd(start[c].vx, sum), d)
              /\ ctl[c].vx = RAdd(RMul(start[c].vx, d), RMul(sum, d))

\* The scenario of the specification, with more than one Move: a body that
\* moves at the start of the pass, damping 0.9, acceleration 30, delta 0.1.
C9_Witness ==
    /\ pc = "physics"
    /\ Len(log) >= 2
    /\ JumpIndices(log) = {}
    /\ \E c \in Controllers :
          /\ bundle[c].damping = <<9, 10>>
          /\ start[c].vx # RZero
          /\ start[c].grounded = "Ground"
          /\ MoveSum(log, c) # RZero
          /\ MoveSum(SubSeq(log, 1, 1), c) = <<3, 1>>

\* The number of times system s ran in the current pass.
TimesRan(s) == Cardinality({i \in 1..Len(ran) : ran[i] = s})

\* C10: the damping stage multiplies velocity.x of every controller by its
\* damping_factor, once per pass, and leaves velocity.y, contact,
\* wall_jump_count and last_wall_jumped_from alone: factor 0.5 takes 10 to 5,
\* factor 1 changes nothing, and with factor 0 velocity.x is 0 at the end of
\* every pass.
C10_Damping ==
    /\ TimesRan("apply_movement_damping") <= 1
    /\ pc = "physics" => TimesRan("apply_movement_damping") = 1
    /\ LastRan = "apply_movement_damping" =>
          \A c \in Controllers :
             /\ ctl[c].vx = RMul(before[c].vx, bundle[c].damping)
             /\ ctl[c].vy = before[c].vy
             /\ ctl[c].grounded = before[c].grounded
             /\ ctl[c].wall_jumps = before[c].wall_jumps
             /\ ctl[c].last_wall = before[c].last_wall
             /\ bundle[c].damping = <<0, 1>> => ctl[c].vx = <<0, 1>>
             /\ Damp(before[c], MovementBundle(<<1, 1>>)) = before[c]
    /\ \A g \in Grounded :
          Damp([NewController EXCEPT !.vx = <<10, 1>>, !.vy = <<7, 1>>,
                                     !.grounded = g],
               MovementBundle(<<1, 2>>))
          = [NewController EXCEPT !.vx = <<5, 1>>, !.vy = <<7, 1>>,
                                  !.grounded = g]

\* Damping by 0.5 of a body that moves on both axes and has wall-jumped.
C10_Witness ==
    /\ LastRan = "apply_movement_damping"
    /\ \E c \in Controllers :
          /\ bundle[c].damping = <<1, 2>>
          /\ before[c].vx # RZero
          /\ before[c].vy # RZero
          /\ before[c].wall_jumps > 0
          /\ ctl[c].vx # before[c].vx

(***************************************************************************)
(* Properties of Move events and of the event queue                        *)
(***************************************************************************)
IsMove(r) == r.ev.type = "Move"

MoveIndices(l) == {i \in 1..Len(l) : IsMove(l[i])}

\* C11: a Move(direction) event adds direction * acceleration * delta_time
\* to velocity.x whatever the contact, and leaves velocity.y,
\* wall_jump_count, last_wall_jumped_from and contact alone; every event acts
\* on what the event before it left, so that the Move events of one pass add
\* up.
C11_MoveAdds ==
    /\ \A i \in MoveIndices(log) : \A c \in Controllers :
          LET s == log[i].pre[c]
              t == log[i].post[c]
              a == RMul(RMul(log[i].ev.direction, bundle[c].acceleration),
                        log[i].dt)
          IN  /\ t.vx = RAdd(s.vx, a)
              /\ t.vy = s.vy
              /\ t.wall_jumps = s.wall_jumps
              /\ t.last_wall = s.last_wall
              /\ t.grounded = s.grounded
    /\ \A i \in 2..Len(log) : log[i].pre = log[i - 1].post
    /\ (LastRan = "movement" /\ log # <<>>) =>
          /\ log[1].pre = before
          /\ ctl = log[Len(log)].post
    /\ (LastRan = "movement" /\ log # <<>> /\ JumpIndices(log) = {}) =>
          \A c \in Controllers :
             ctl[c].vx = RAdd(before[c].vx, MoveSum(log, c))

\* Two Move events in one pass, on a wall, for a body that has wall-jumped
\* and moves on both axes; both events change velocity.x.
C11_Witness ==
    /\ LastRan = "movement"
    /\ Len(log) = 2
    /\ JumpIndices(log) = {}
    /\ \E c \in Controllers :
          /\ before[c].grounded \in Walls
          /\ before[c].wall_jumps > 0
          /\ before[c].vx # RZero
          /\ before[c].vy # RZero
          /\ log[1].post[c].vx # log[1].pre[c].vx
          /\ log[2].post[c].vx # log[2].pre[c].vx

\* The events of the tagged sequence t, and the events of the records l.
EventsOf(t) == [i \in 1..Len(t) |-> t[i].ev]

Consumed(l) == [i \in 1..Len(l) |-> l[i].ev]

HasRun(s) == \E i \in 1..Len(ran) : ran[i] = s

\* C12: every event is consumed exactly once, in the pass in which it was
\* sent, in the order sent.  Until movement runs the queue holds the events
\* of this pass and none has been processed; once it has run the queue is
\* empty and the events processed are those sent in this pass, each once and
\* in the same order; a pass starts with an empty queue.  The keyboard's
\* events precede the gamepads', and a source's Move precedes its Jump.
C12_EventsOnceInOrder ==
    /\ ran = <<>> => events = <<>>
    /\ ~HasRun("movement") => (log = <<>> /\ events = EventsOf(produced))
    /\ HasRun("movement") =>
          (events = <<>> /\ Consumed(log) = EventsOf(produced))
    /\ \A i, j \in 1..Len(produced) :
          i < j =>
             /\ produced[j].src = Keyboard => produced[i].src = Keyboard
             /\ produced[i].src = produced[j].src =>
                   (produced[i].ev.type = "Move" /\ produced[j].ev.type = "Jump")

\* A pass in which the keyboard sent a Move and a Jump and a gamepad a Move,
\* and movement has processed the three.
C12_Witness ==
    /\ HasRun("movement")
    /\ Len(log) = 3
    /\ produced[1] = [src |-> Keyboard, ev |-> Move(RInt(-1))]
    /\ produced[2] = [src |-> Keyboard, ev |-> Jump]
    /\ produced[3].src = Gamepad(1)
    /\ \E c \in Controllers : log[3].post[c] # log[1].pre[c]

\* C13: a Move event is sent only when the net horizontal input of its
\* source is nonzero: no source, keyboard or gamepad, sends a Move whose
\* direction (the horizontal input it read) is 0.
C13_AsStated ==
    \A i \in 1..Len(produced) :
       produced[i].ev.type = "Move" => produced[i].ev.direction # RZero

(***************************************************************************)
(* Construction                                                            *)
(***************************************************************************)
\* A shape of no size.
Degenerate(shape) == shape.radius = RZero /\ shape.length = RZero

\* C14: no controller exists whose cast shape is degenerate (a collider of
\* no size is rejected when the controller is built), so the classifier
\* never runs with such a shape.
C14_AsStated ==
    HasRun("update_grounded") =>
       \A c \in Controllers : ~Degenerate(caster_shape[c])

(***************************************************************************)
(* Properties of the contact and of the wall-jump state                    *)
(***************************************************************************)
\* C15: classification has no memory.  When the classifier runs on a
\* controller whose contact already is the one the cast results of this pass
\* give (as it is when the world has not changed since it ran last), it
\* writes that same contact again, whatever the wall-jump state and the
\* velocity of the controller are.
C15_Idempotent ==
    [][(pc = "update_grounded" /\ pc' # pc) =>
          \A c \in Controllers :
             ctl[c].grounded = PriorityContact(world[c]) =>
                ctl'[c].grounded = ctl[c].grounded]_vars

\* The classifier has run again on a wall the controller has jumped off,
\* with the body moving on both axes, and the contact is the one of the
\* pass before.
C15_Witness ==
    /\ LastRan = "update_grounded"
    /\ tick >= 1
    /\ \E c \in Controllers :
          /\ before[c].grounded = "RightWall"
          /\ ctl[c].grounded = "RightWall"
          /\ world[c] = [down |-> FALSE, right |-> TRUE, left |-> FALSE]
          /\ before[c].wall_jumps > 0
          /\ before[c].last_wall = <<"RightWall">>
          /\ before[c].vx # RZero
          /\ before[c].vy # RZero

\* The applied jump that stands for controller c at the end of movement: the
\* index of the last applied jump of the pass when no later event of the
\* pass changed the controller, 0 when there is none.
StandingJump(c) ==
    IF AppliedIndices(log, c) = {} THEN 0
    ELSE LET i == Max(AppliedIndices(log, c))
         IN  IF \A k \in (i + 1)..Len(log) : ShowsNothing(log[k], c)
             THEN i ELSE 0

\* The horizontal velocity the specification gives a jump off the wall g.
KickOff(g, c) ==
    IF g = "LeftWall" THEN RMul(bundle[c].jump_impulse, <<1, 2>>)
    ELSE RMul(bundle[c].jump_impulse, <<-1, 2>>)

\* C16 as stated: at the end of a pass in which a jump was applied and no
\* later event altered it, velocity.y is jump_impulse and, for a wall jump,
\* velocity.x is +jump_impulse * 0.5 or -jump_impulse * 0.5.
C16_AsStated ==
    pc = "physics" =>
       \A c \in Controllers :
          StandingJump(c) # 0 =>
             LET g == log[StandingJump(c)].pre[c].grounded
             IN  /\ ctl[c].vy = bundle[c].jump_impulse
                 /\ g \in Walls => ctl[c].vx = KickOff(g, c)

\* C16: at the end of a pass in which a jump was applied and no later event
\* altered it, velocity.y is jump_impulse, and for a wall jump velocity.x is
\* the kick of +-jump_impulse * 0.5 times damping_factor: damping has acted
\* on it once.
C16_JumpAfterDamping ==
    pc = "physics" =>
       \A c \in Controllers :
          StandingJump(c) # 0 =>
             LET g == log[StandingJump(c)].pre[c].grounded
             IN  /\ ctl[c].vy = bundle[c].jump_impulse
                 /\ g \in Walls =>
                       ctl[c].vx = RMul(KickOff(g, c), bundle[c].damping)

\* The end of a pass with a jump off the right wall, damping 0.9: the kick
\* of -3.5 has become -3.15.
C16_Witness ==
    /\ pc = "physics"
    /\ \E c \in Controllers :
          /\ StandingJump(c) # 0
          /\ log[StandingJump(c)].pre[c].grounded = "RightWall"
          /\ bundle[c].damping = <<9, 10>>
          /\ log[StandingJump(c)].post[c].vx = <<-7, 2>>
          /\ ctl[c].vx = <<-63, 20>>
          /\ ctl[c].vy = <<7, 1>>

\* The wall jumps controller c has performed since the most recent pass in
\* which its contact was classified Ground, and since its last jump off the
\* ground.
PerformedSinceGround(c) ==
    SinceGround(performed[c].ground, log, ctl[c].grounded,
                HasRun("update_grounded"), c)

PerformedSinceGroundJump(c) == SinceGroundJump(performed[c].jump, log, c)

\* C17 as stated: in every state wall_jump_count is the number of wall jumps
\* performed since the most recent pass in which the contact was classified
\* Ground.
C17_AsStated ==
    \A c \in Controllers : ctl[c].wall_jumps = PerformedSinceGround(c)

\* C17: in every state wall_jump_count is the number of wall jumps performed
\* since the controller's last jump off the ground (since it was built when
\* it has not jumped off the ground).
C17_CountSinceGroundJump ==
    \A c \in Controllers : ctl[c].wall_jumps = PerformedSinceGroundJump(c)

\* Two wall jumps, then a pass on the ground without a jump: the count is
\* still 2, and no wall jump has been performed since the ground was touched.
C17_Witness ==
    \E c \in Controllers :
       /\ ctl[c].wall_jumps = 2
       /\ ctl[c].grounded = "Ground"
       /\ HasRun("update_grounded")
       /\ PerformedSinceGround(c) = 0
       /\ PerformedSinceGroundJump(c) = 2

\* C18: only a jump off the ground lifts the wall-jump restriction.  The
\* classifier changes nothing but the contact; a pass classified Ground
\* without a Jump event leaves wall_jump_count and last_wall_jumped_from as
\* they were; and whenever a pass has lowered the count or cleared the wall,
\* a jump off the ground was applied in it.
C18_ResetOnlyByGroundJump ==
    /\ LastRan = "update_grounded" =>
          \A c \in Controllers : Motion(ctl[c]) = Motion(before[c])
    /\ \A c \in Controllers :
          (pc = "physics" /\ ctl[c].grounded = "Ground"
              /\ JumpIndices(log) = {}) =>
             /\ ctl[c].wall_jumps = start[c].wall_jumps
             /\ ctl[c].last_wall = start[c].last_wall
    /\ \A c \in Controllers :
          (\/ ctl[c].wall_jumps < start[c].wall_jumps
           \/ ctl[c].last_wall = <<>> /\ start[c].last_wall # <<>>) =>
             GroundJumpIndices(log, c) # {}

\* The end of a pass on the ground in which a Move but no Jump was
\* processed, for a controller that has jumped off a wall: the count and the
\* wall are still there.
C18_Witness ==
    /\ pc = "physics"
    /\ log # <<>>
    /\ JumpIndices(log) = {}
    /\ \E c \in Controllers :
          /\ ctl[c].grounded = "Ground"
          /\ start[c].grounded \in Walls
          /\ ctl[c].wall_jumps > 0
          /\ ctl[c].last_wall # <<>>

\* C19: the contact is written by the classifier only.  No step but the
\* classifier's changes it (not the input systems, not movement, not damping,
\* not the physics engine); the classifier has run in the pass before
\* movement processes an event and before the pass ends; and every event of
\* the pass is processed, from first to last, under the contact the
\* classifier left.
C19_ContactOnlyByClassifier ==
    [][/\ pc # "update_grounded" =>
             \A c \in Controllers : ctl'[c].grounded = ctl[c].grounded
       /\ pc \in {"movement", "apply_movement_damping", "physics"} =>
             HasRun("update_grounded")
       /\ pc = "movement" =>
             \A i \in 1..Len(log') : \A c \in Controllers :
                /\ log'[i].pre[c].grounded = ctl[c].grounded
                /\ log'[i].post[c].grounded = ctl[c].grounded]_vars

\* The end of a pass in which the classifier put the controller on a wall it
\* was not on before, and movement processed a Move and an applied jump off
\* that wall.
C19_Witness ==
    /\ pc = "physics"
    /\ MoveIndices(log) # {}
    /\ \E c \in Controllers :
          /\ WallJumpIndices(log, c) # {}
          /\ ctl[c].grounded \in Walls
          /\ start[c].grounded # ctl[c].grounded
          /\ ctl[c].grounded = PriorityContact(world[c])

\* The wall-jump state of the controller record s is consistent.
Consistent(s) ==
    /\ s.wall_jumps \in Nat
    /\ s.last_wall \in {<<>>, <<"LeftWall">>, <<"RightWall">>}
    /\ s.wall_jumps = 0 <=> s.last_wall = <<>>

\* C20: wall_jump_count is 0 exactly when last_wall_jumped_from is None, and
\* last_wall_jumped_from is None, Some(LeftWall) or Some(RightWall): in every
\* state, and before and after every event movement processes.  A controller
\* starts with 0 and None.
C20_CountAndWallAgree ==
    /\ \A c \in Controllers :
          /\ Consistent(ctl[c])
          /\ \A i \in 1..Len(log) :
                Consistent(log[i].pre[c]) /\ Consistent(log[i].post[c])
          /\ (tick = 0 /\ ~HasRun("movement")) =>
                (ctl[c].wall_jumps = 0 /\ ctl[c].last_wall = <<>>)
    /\ Consistent(NewController)

\* A jump off the ground takes a controller that has jumped off both walls
\* from 2 and Some(wall) to 0 and None.
C20_Witness ==
    \E c \in Controllers : \E i \in 1..Len(log) :
       /\ log[i].pre[c].wall_jumps = 2
       /\ log[i].pre[c].last_wall # <<>>
       /\ log[i].post[c].wall_jumps = 0
       /\ log[i].post[c].last_wall = <<>>

====
